---- MODULE Spec2Model ----
(***************************************************************************)
(* Model of src/server.py: the /api/search handler, the four Selenium      *)
(* scrapers it calls one after the other, and the sort-and-savings step.   *)
(*                                                                         *)
(* Strings are sequences of one-character strings.  Prices are the values  *)
(* float() produces from a digit run; the model keeps the integral ones.   *)
(* A quotient of two prices is kept as an exact reduced fraction.          *)
(* The display name of a candidate (first line of the product text, cut    *)
(* to 80 characters) takes part in no decision and is left out of the      *)
(* candidate records.                                                      *)
(***************************************************************************)
EXTENDS Integers, Sequences, FiniteSets, TLC

VARIABLES
  pc,            \* where the worker stands in search and in the scraper
  medicine,      \* the trimmed query
  idx,           \* index of the current scraper in the scrapers list
  results,       \* the results list of search
  driver,        \* the scraper's local driver: "unbound", "open" or "quit"
  quits,         \* driver.quit() calls made by the current scraper call
  ret,           \* what the current scraper call gave back
  linkNo,        \* anchors scrape_1mg has looked at
  calls,         \* scrapers entered during this request, in order
  sleeps,        \* pacing sleeps taken during this request
  returned,      \* what each finished scraper call gave back, in order
  openSessions,  \* browser sessions acquired and never quit
  response       \* the response of the request

vars == <<pc, medicine, idx, results, driver, quits, ret, linkNo,
          calls, sleeps, returned, openSessions, response>>

(* ---------------------------- bounds ---------------------------------- *)
\* longest request string the client sends
MaxLen == 2
\* most anchors a 1mg page shows
MaxLinks == 2

(* ---------------------------- inputs ---------------------------------- *)
Chars == {" ", "a"}

SeqsUpTo(S, n) == UNION {[1..k -> S] : k \in 0..n}

Queries == SeqsUpTo(Chars, MaxLen)

\* the amount text that follows the rupee sign in a product text
PriceTexts ==
  { <<"0">>, <<"2","5">>, <<"4","0">>, <<"1","0","0">>, <<"1","5","0">>,
    <<"1",",","5","0">> }

(* --------------------------- python values ---------------------------- *)
None == [kind |-> "None"]
Raised == [kind |-> "raise"]
Dict(d) == [kind |-> "dict", val |-> d]
NotReturned == [kind |-> "running"]

Null == [isNull |-> TRUE]
Num(v) == [isNull |-> FALSE, val |-> v]

(* ------------------------------ strings ------------------------------- *)
RECURSIVE lstrip(_)
lstrip(s) ==
  IF s = <<>> THEN <<>>
  ELSE IF Head(s) = " " THEN lstrip(Tail(s)) ELSE s

RECURSIVE rstrip(_)
rstrip(s) ==
  IF s = <<>> THEN <<>>
  ELSE IF s[Len(s)] = " " THEN rstrip(SubSeq(s, 1, Len(s) - 1)) ELSE s

\* a handler that forgets to trim
strip_none(s) == s

\* str.strip()
strip(s) == rstrip(lstrip(s))

\* the rupee glyph, one character of the alphabet
Rupee == "rupee"

Digits == {"0","1","2","3","4","5","6","7","8","9"}

DigitVal(c) ==
  CASE c = "0" -> 0 [] c = "1" -> 1 [] c = "2" -> 2 [] c = "3" -> 3
    [] c = "4" -> 4 [] c = "5" -> 5 [] c = "6" -> 6 [] c = "7" -> 7
    [] c = "8" -> 8 [] c = "9" -> 9

\* the leading run of digits of s: what \d+ matches at the start of s
RECURSIVE digitRun(_)
digitRun(s) ==
  IF s = <<>> \/ Head(s) \notin Digits THEN <<>>
  ELSE <<Head(s)>> \o digitRun(Tail(s))

\* re.search(r'\d+', s): the first maximal digit run anywhere in s
RECURSIVE firstDigits(_)
firstDigits(s) ==
  IF s = <<>> THEN <<>>
  ELSE IF Head(s) \in Digits THEN digitRun(s) ELSE firstDigits(Tail(s))

\* float() of a digit run
RECURSIVE float(_)
float(s) ==
  IF s = <<>> THEN 0
  ELSE float(SubSeq(s, 1, Len(s) - 1)) * 10 + DigitVal(s[Len(s)])


\* str.replace(old, ''): drop every occurrence of old, left to right
RECURSIVE replace(_, _)
replace(s, old) ==
  IF Len(s) < Len(old) THEN s
  ELSE IF SubSeq(s, 1, Len(old)) = old
       THEN replace(SubSeq(s, Len(old) + 1, Len(s)), old)
       ELSE <<Head(s)>> \o replace(Tail(s), old)

\* what \d+(?:,\d+)* matches at the start of s
RECURSIVE groupRun(_)
groupRun(s) ==
  LET d == digitRun(s)
      rest == SubSeq(s, Len(d) + 1, Len(s))
  IN IF d # <<>> /\ Len(rest) >= 2 /\ rest[1] = "," /\ rest[2] \in Digits
     THEN d \o <<",">> \o groupRun(Tail(rest))
     ELSE d

\* clean_price(text): a number, or Null for Python's None
clean_price(text) ==
  IF text = <<>> THEN Null
  ELSE LET t == strip(replace(replace(replace(text, <<",">>), <<Rupee>>), <<"R","s">>))
           m == firstDigits(t)
       IN IF m # <<>> THEN Num(float(m)) ELSE Null

\* Python truthiness of a price that is a number or None
truthy(p) == ~p.isNull /\ p.val # 0

(* ------------------------- sort and savings --------------------------- *)
\* the order of sort(reverse=True)
KeyLess_reverse(x, y) == y.price # 0 /\ (x.price = 0 \/ y.price < x.price)

\* key(x) < key(y) for key = lambda x: x['price'] if x['price'] else inf
KeyLess(x, y) == x.price # 0 /\ (y.price = 0 \/ x.price < y.price)

\* an insertion that puts x in front of the elements of equal key
RECURSIVE insert_front(_, _)
insert_front(x, s) ==
  IF s = <<>> THEN <<x>>
  ELSE IF ~KeyLess(Head(s), x) THEN <<x>> \o s
       ELSE <<Head(s)>> \o insert_front(x, Tail(s))

\* put x behind every element whose key is not larger (stable)
RECURSIVE insert(_, _)
insert(x, s) ==
  IF s = <<>> THEN <<x>>
  ELSE IF KeyLess(x, Head(s)) THEN <<x>> \o s
       ELSE <<Head(s)>> \o insert(x, Tail(s))

\* list.sort(key=...): stable, ascending
RECURSIVE sort(_)
sort(s) ==
  IF s = <<>> THEN <<>>
  ELSE insert(s[Len(s)], sort(SubSeq(s, 1, Len(s) - 1)))

RECURSIVE gcd(_, _)
gcd(a, b) == IF b = 0 THEN a ELSE gcd(b, a % b)

\* the saving taken relative to the lowest price, d - n
percent_of_min(n, d) ==
  LET g == gcd(n * 100, d - n)
  IN [num |-> (n * 100) \div g, den |-> (d - n) \div g]

\* the exact value of (n / d) * 100, d > 0
percent(n, d) ==
  LET g == gcd(n * 100, d)
  IN [num |-> (n * 100) \div g, den |-> d \div g]

\* the response when the 'if not results' test is missing: results[0] of an
\* empty list raises IndexError into the outer handler
aggregate_unchecked(med, collected) ==
  LET sorted == sort(collected)
      n == Len(sorted)
  IN IF n = 0 \/ (n > 1 /\ sorted[n].price = 0)
     THEN [status |-> 500, error |-> "IndexError"]
     ELSE [status |-> 200,
           medicine |-> med,
           results |-> sorted,
           bestPrice |-> sorted[1].price,
           savings |-> IF n > 1 THEN Num(sorted[n].price - sorted[1].price)
                       ELSE Null,
           savingsPercentage |->
               IF n > 1
               THEN Num(percent(sorted[n].price - sorted[1].price, sorted[n].price))
               ELSE Null,
           count |-> n]

\* lines 234-256 of search: the response built from the collected list
aggregate(med, collected) ==
  LET sorted == sort(collected)
      n == Len(sorted)
  IN IF n = 0
     THEN [status |-> 404, error |-> "No results found"]
     ELSE IF n > 1 /\ sorted[n].price = 0
     THEN [status |-> 500, error |-> "ZeroDivisionError"]
     ELSE [status |-> 200,
           medicine |-> med,
           results |-> sorted,
           bestPrice |-> sorted[1].price,
           savings |-> IF n > 1 THEN Num(sorted[n].price - sorted[1].price)
                       ELSE Null,
           savingsPercentage |->
               IF n > 1
               THEN Num(percent(sorted[n].price - sorted[1].price, sorted[n].price))
               ELSE Null,
           count |-> n]


(* ----------------------------- scrapers ------------------------------- *)
\* the scrapers list of search, in invocation order
scrapers == <<"scrape_netmeds", "scrape_1mg", "scrape_apollo", "scrape_pharmeasy">>

\* all_links[:20]
LinkLimit == 20

\* what find_element(By.CSS_SELECTOR, ...) meets on the page: no product
\* container (it raises), or a container whose text carries an amount after
\* the rupee sign or none, and an anchor with an href, without one, or none
Containers ==
  {[found |-> FALSE]} \cup
  [found : {TRUE},
   amount : {Null} \cup {Num(t) : t \in PriceTexts},
   anchor : {"href", "nohref", "none"}]

\* one anchor of the 1mg page: whether its text holds the rupee sign, the
\* amount after it if any, whether the text is longer than 10 characters,
\* and whether the anchor has an href
Links ==
  {l \in [rupee : BOOLEAN,
          amount : {Null} \cup {Num(t) : t \in PriceTexts},
          long : BOOLEAN,
          href : BOOLEAN] : ~l.amount.isNull => l.rupee}

\* an outer handler that returns None without driver.quit()
handler_no_quit(q3) == [ret |-> None, quits |-> 0]

\* the outer handler: except Exception: driver.quit(); return None
\* (q3 is TRUE when that quit call returns, FALSE when it raises).
\* Every outcome carries the number of driver.quit() calls made.
handler(q3) == [ret |-> IF q3 THEN None ELSE Raised, quits |-> 1]

again(o) == [ret |-> o.ret, quits |-> o.quits + 1]

\* the code behind the inner try: driver.quit(); return None
afterTry(q2, q3) == IF q2 THEN [ret |-> None, quits |-> 1] ELSE again(handler(q3))

\* scrape_netmeds from find_element on (lines 51-75)
scrape_netmeds(page, q1, q2, q3) ==
  IF page.found /\ ~page.amount.isNull
  THEN IF q1
       THEN [ret |-> Dict([pharmacy |-> "Netmeds",
                           price |-> float(digitRun(page.amount.val)),
                           url |-> "url"]),
             quits |-> 1]
       ELSE again(afterTry(q2, q3))
  ELSE afterTry(q2, q3)

\* the body shared by scrape_apollo (lines 85-117) and scrape_pharmeasy
\* (lines 127-159), which differ in the pharmacy name only
scrape_card(name, page, q1, q2, q3) ==
  IF page.found
  THEN LET price == IF page.amount.isNull THEN Null
                    ELSE clean_price(groupRun(page.amount.val))
           link == CASE page.anchor = "href" -> "href"
                     [] page.anchor = "nohref" -> "None"
                     [] page.anchor = "none" -> "url"
       IN IF q1 /\ truthy(price)
          THEN [ret |-> Dict([pharmacy |-> name, price |-> price.val, url |-> link]),
                quits |-> 1]
          ELSE again(afterTry(q2, q3))
  ELSE afterTry(q2, q3)

scrape_apollo(page, q1, q2, q3) == scrape_card("Apollo Pharmacy", page, q1, q2, q3)

scrape_pharmeasy(page, q1, q2, q3) == scrape_card("PharmEasy", page, q1, q2, q3)

\* the test scrape_1mg applies to one anchor (lines 176-178)
link_matches(l) == l.rupee /\ l.long /\ ~l.amount.isNull

\* scrape_1mg on a matching anchor (lines 179-189)
scrape_1mg(l, q1, q2, q3) ==
  IF q1
  THEN [ret |-> Dict([pharmacy |-> "1mg",
                      price |-> float(digitRun(l.amount.val)),
                      url |-> IF l.href THEN "href" ELSE "url"]),
        quits |-> 1]
  ELSE again(afterTry(q2, q3))

(* ------------------------------ requests ------------------------------ *)
\* request.json: no JSON body, a body without the key, or a body with it
Bodies ==
  {[json |-> FALSE]} \cup {[json |-> TRUE, has |-> FALSE]} \cup
  {[json |-> TRUE, has |-> TRUE, medicine |-> q] : q \in Queries}

\* data.get('medicine', '')
get_medicine(data) == IF data.has THEN data.medicine ELSE <<>>

NoResponse == [status |-> 0]

Init ==
  /\ pc = "idle"
  /\ medicine = <<>>
  /\ idx = 0
  /\ results = <<>>
  /\ driver = "unbound"
  /\ quits = 0
  /\ ret = NotReturned
  /\ linkNo = 0
  /\ calls = <<>>
  /\ sleeps = 0
  /\ returned = <<>>
  /\ openSessions = 0
  /\ response = NoResponse

\* search, lines 208-222: read the body, trim, reject or start the loop
search(data) ==
  /\ pc = "idle"
  /\ IF ~data.json
     THEN /\ response' = [status |-> 500, error |-> "AttributeError"]
          /\ pc' = "done"
          /\ UNCHANGED <<medicine, idx>>
     ELSE /\ medicine' = strip(get_medicine(data))
          /\ IF medicine' = <<>>
             THEN /\ response' = [status |-> 400, error |-> "Please enter a medicine name"]
                  /\ pc' = "done"
                  /\ UNCHANGED idx
             ELSE /\ pc' = "call"
                  /\ idx' = 1
                  /\ UNCHANGED response
  /\ UNCHANGED <<results, driver, quits, ret, linkNo, calls, sleeps, returned, openSessions>>

\* the adapter returns (or raises) with outcome o
adapter_exit(o) ==
  /\ ret' = o.ret
  /\ quits' = quits + o.quits
  /\ driver' = IF o.quits > 0 THEN "quit" ELSE driver
  /\ openSessions' = IF o.quits > 0 /\ driver = "open"
                     THEN openSessions - 1 ELSE openSessions
  /\ pc' = "returned"

\* result = scraper_func(medicine) enters the scraper; driver = get_driver()
get_driver(ok) ==
  /\ pc = "call"
  /\ calls' = Append(calls, scrapers[idx])
  /\ IF ok
     THEN /\ driver' = "open"
          /\ openSessions' = openSessions + 1
          /\ pc' = "nav"
          /\ UNCHANGED <<ret, quits>>
     ELSE \* 'driver' is not in locals(): the handler returns None
          adapter_exit([ret |-> None, quits |-> 0])
  /\ UNCHANGED <<medicine, idx, results, linkNo, sleeps, returned, response>>

\* driver.get(url), the settle sleep (and the scroll of scrape_1mg)
page_load(ok, q3) ==
  /\ pc = "nav"
  /\ IF ok
     THEN /\ pc' = "extract"
          /\ UNCHANGED <<ret, quits, driver, openSessions>>
     ELSE adapter_exit(handler(q3))
  /\ UNCHANGED <<medicine, idx, results, linkNo, calls, sleeps, returned, response>>

\* the inner try of scrape_netmeds, scrape_apollo and scrape_pharmeasy
extract(page, q1, q2, q3) ==
  /\ pc = "extract"
  /\ scrapers[idx] # "scrape_1mg"
  /\ adapter_exit(CASE scrapers[idx] = "scrape_netmeds" -> scrape_netmeds(page, q1, q2, q3)
                    [] scrapers[idx] = "scrape_apollo" -> scrape_apollo(page, q1, q2, q3)
                    [] scrapers[idx] = "scrape_pharmeasy" -> scrape_pharmeasy(page, q1, q2, q3))
  /\ UNCHANGED <<medicine, idx, results, linkNo, calls, sleeps, returned, response>>

\* one turn of the loop of scrape_1mg over all_links[:20]
next_link(l, q1, q2, q3) ==
  /\ pc = "extract"
  /\ scrapers[idx] = "scrape_1mg"
  /\ linkNo < MaxLinks
  /\ linkNo < LinkLimit
  /\ IF link_matches(l)
     THEN /\ adapter_exit(scrape_1mg(l, q1, q2, q3))
          /\ UNCHANGED linkNo
     ELSE /\ linkNo' = linkNo + 1
          /\ UNCHANGED <<ret, quits, driver, openSessions, pc>>
  /\ UNCHANGED <<medicine, idx, results, calls, sleeps, returned, response>>

\* the loop of scrape_1mg ends without a match, or find_elements, link.text
\* or get_attribute raises into the inner except
no_link(q2, q3) ==
  /\ pc = "extract"
  /\ scrapers[idx] = "scrape_1mg"
  /\ adapter_exit(afterTry(q2, q3))
  /\ UNCHANGED <<medicine, idx, results, linkNo, calls, sleeps, returned, response>>

\* a loop without the inner try: a scraper that raises or gives None ends it
collect_abort ==
  /\ pc = "returned"
  /\ results' = IF ret.kind = "dict" /\ ret.val.price # 0
                THEN Append(results, ret.val) ELSE results
  /\ returned' = Append(returned, ret)
  /\ ret' = NotReturned
  /\ driver' = "unbound"
  /\ quits' = 0
  /\ linkNo' = 0
  /\ pc' = IF ret.kind = "dict" THEN "sleep" ELSE "sort"
  /\ UNCHANGED <<medicine, idx, calls, sleeps, openSessions, response>>

\* a loop that keeps every dict, whatever its price
collect_any ==
  /\ pc = "returned"
  /\ results' = IF ret.kind = "dict" THEN Append(results, ret.val) ELSE results
  /\ returned' = Append(returned, ret)
  /\ ret' = NotReturned
  /\ driver' = "unbound"
  /\ quits' = 0
  /\ linkNo' = 0
  /\ pc' = "sleep"
  /\ UNCHANGED <<medicine, idx, calls, sleeps, openSessions, response>>

\* search, lines 226-230: keep the result if it is a dict with a truthy price
collect ==
  /\ pc = "returned"
  /\ results' = IF ret.kind = "dict" /\ ret.val.price # 0
                THEN Append(results, ret.val) ELSE results
  /\ returned' = Append(returned, ret)
  /\ ret' = NotReturned
  /\ driver' = "unbound"
  /\ quits' = 0
  /\ linkNo' = 0
  /\ pc' = "sleep"
  /\ UNCHANGED <<medicine, idx, calls, sleeps, openSessions, response>>

\* a loop with the sleep inside the try, skipped when the scraper raised
pace_on_return ==
  /\ pc = "sleep"
  /\ sleeps' = IF returned[Len(returned)] = Raised THEN sleeps ELSE sleeps + 1
  /\ IF idx < Len(scrapers)
     THEN /\ idx' = idx + 1
          /\ pc' = "call"
     ELSE /\ pc' = "sort"
          /\ UNCHANGED idx
  /\ UNCHANGED <<medicine, results, driver, quits, ret, linkNo, calls, returned,
                 openSessions, response>>

\* search, line 232: time.sleep(2), then the next scraper or the end of the loop
pace ==
  /\ pc = "sleep"
  /\ sleeps' = sleeps + 1
  /\ IF idx < Len(scrapers)
     THEN /\ idx' = idx + 1
          /\ pc' = "call"
     ELSE /\ pc' = "sort"
          /\ UNCHANGED idx
  /\ UNCHANGED <<medicine, results, driver, quits, ret, linkNo, calls, returned,
                 openSessions, response>>

\* search, lines 234-256: sort in place and answer
respond ==
  /\ pc = "sort"
  /\ results' = sort(results)
  /\ response' = aggregate(medicine, results)
  /\ pc' = "done"
  /\ UNCHANGED <<medicine, idx, driver, quits, ret, linkNo, calls, sleeps, returned,
                 openSessions>>

\* the worker takes the next request; nothing but the browser sessions
\* left open outlives a request
next_request ==
  /\ pc = "done"
  /\ pc' = "idle"
  /\ medicine' = <<>>
  /\ idx' = 0
  /\ results' = <<>>
  /\ calls' = <<>>
  /\ sleeps' = 0
  /\ returned' = <<>>
  /\ response' = NoResponse
  /\ UNCHANGED <<driver, quits, ret, linkNo, openSessions>>

Next ==
  \/ \E data \in Bodies : search(data)
  \/ \E ok \in BOOLEAN : get_driver(ok)
  \/ \E ok, q3 \in BOOLEAN : page_load(ok, q3)
  \/ \E page \in Containers : \E q1, q2, q3 \in BOOLEAN : extract(page, q1, q2, q3)
  \/ \E l \in Links : \E q1, q2, q3 \in BOOLEAN : next_link(l, q1, q2, q3)
  \/ \E q2, q3 \in BOOLEAN : no_link(q2, q3)
  \/ collect
  \/ pace
  \/ respond
  \/ next_request

Spec == Init /\ [][Next]_vars

(* ---------------------------- properties ----------------------------- *)
Range(s) == {s[i] : i \in 1..Len(s)}

\* the candidates the finished scraper calls gave back with a positive price
Survivors == {r.val : r \in {x \in Range(returned) : x.kind = "dict" /\ x.val.price > 0}}

SurvivorPrices == {c.price : c \in Survivors}

MaxOf(S) == CHOOSE m \in S : \A x \in S : x <= m

MinOf(S) == CHOOSE m \in S : \A x \in S : m <= x

\* every order in which the list s can have been collected
Perms(s) ==
  {[i \in 1..Len(s) |-> s[f[i]]] :
     f \in {g \in [1..Len(s) -> 1..Len(s)] : \A i, j \in 1..Len(s) : g[i] = g[j] => i = j}}

Prices(s) == [i \in 1..Len(s) |-> s[i].price]

AllSpaces(q) == \A i \in 1..Len(q) : q[i] = " "

\* C1: in a 200 response the results are in ascending order of price and
\* bestPrice is the smallest price among the candidates the scrapers gave
C1_Ranking ==
  response.status = 200 =>
    /\ \A i \in 1..(Len(response.results) - 1) :
         response.results[i].price <= response.results[i + 1].price
    /\ response.bestPrice = MinOf(SurvivorPrices)

C1_Witness ==
  /\ response.status = 200
  /\ response.count >= 3
  /\ returned[1].kind = "dict" /\ returned[2].kind = "dict"
  /\ returned[1].val.price > returned[2].val.price
  /\ returned[2].val.price > 0

\* C2: in a 200 response one candidate gives null savings and percentage;
\* two or more give savings = max - min and percentage = savings / max * 100
\* (100 and 150 give 50 and 100/3; 25 and 40 give 15 and 75/2)
C2_Savings ==
  response.status = 200 =>
    LET hi == MaxOf(SurvivorPrices)
        lo == MinOf(SurvivorPrices)
    IN /\ response.count = 1 =>
            response.savings = Null /\ response.savingsPercentage = Null
       /\ response.count >= 2 =>
            /\ response.savings = Num(hi - lo)
            /\ ~response.savingsPercentage.isNull
            /\ response.savingsPercentage.val.den > 0
            /\ response.savingsPercentage.val.num * hi
                 = (hi - lo) * 100 * response.savingsPercentage.val.den
       /\ (response.count = 2 /\ SurvivorPrices = {100, 150}) =>
            /\ response.savings = Num(50)
            /\ response.savingsPercentage = Num([num |-> 100, den |-> 3])
       /\ (response.count = 2 /\ SurvivorPrices = {25, 40}) =>
            /\ response.savings = Num(15)
            /\ response.savingsPercentage = Num([num |-> 75, den |-> 2])

C2_Witness ==
  /\ response.status = 200
  /\ response.count = 2
  /\ SurvivorPrices = {25, 40}
  /\ response.savings = Num(15)

\* C3: whatever scrapers raise or give None, the others are still called,
\* every candidate with a positive price they give is in the response, and
\* the failing ones add nothing to results or count
C3_Isolation ==
  /\ response.status \in {200, 404} => calls = scrapers /\ Len(returned) = Len(scrapers)
  /\ response.status = 404 => Survivors = {}
  /\ response.status = 200 =>
       /\ Range(response.results) = Survivors
       /\ response.count = Cardinality(Survivors)
       /\ Len(response.results) = response.count

C3_Witness ==
  /\ response.status = 200
  /\ returned[1] = Raised
  /\ returned[2] = None
  /\ returned[3].kind = "dict"
  /\ returned[4] = Raised
  /\ response.count = 1

\* C4 as claimed: a query shorter than 2 characters after trimming is
\* answered with 400
C4_ShortRejected ==
  [][\A d \in Bodies :
       (search(d) /\ d.json /\ d.has /\ Len(medicine') < 2) => response'.status = 400]_vars

\* C4 as amended: a query is answered with 400 exactly when nothing is left
\* of it after trimming; any other query, a single character too, starts
\* the scraper loop
C4_EmptyRejected ==
  [][\A d \in Bodies :
       (search(d) /\ d.json) =>
          LET q == IF d.has THEN d.medicine ELSE <<>>
          IN IF AllSpaces(q)
             THEN response'.status = 400 /\ pc' = "done"
             ELSE response'.status = 0 /\ pc' = "call"]_vars

C4_Witness == response.status = 400 /\ pc = "done" /\ calls = <<>>

\* C5: for a valid query the answer is 404 exactly when no candidate
\* survived, and otherwise 200 with count the number of survivors (>= 1);
\* a 200 never carries an empty results list
C5_NoResults ==
  /\ (pc = "done" /\ medicine # <<>>) =>
       /\ response.status \in {200, 404}
       /\ response.status = 404 <=> Survivors = {}
       /\ response.status = 200 =>
            response.count = Cardinality(Survivors) /\ response.count >= 1
  /\ response.status = 200 => response.results # <<>>

C5_Witness ==
  /\ pc = "done"
  /\ medicine # <<>>
  /\ response.status = 404
  /\ \E i \in 1..Len(returned) : returned[i].kind = "dict"

\* C6 as claimed: a scraper gives a candidate only with a positive price
C6_PositiveCandidate ==
  (pc = "returned" /\ ret.kind = "dict") => ret.val.price > 0

\* C7: a scraper call that acquired a session has called driver.quit()
\* before it ends, on every path, and no session stays open between calls
C7_Released ==
  /\ pc = "returned" => driver # "open" /\ (driver = "quit" => quits >= 1)
  /\ pc \notin {"nav", "extract"} => openSessions = 0

C7_Witness ==
  /\ pc = "returned"
  /\ driver = "quit"
  /\ ret = None
  /\ quits = 1
  /\ Len(returned) >= 1

\* C8 as claimed: every order of collection gives the same response
C8_OrderIndependent ==
  pc = "sort" => \A p \in Perms(results) : aggregate(medicine, p) = aggregate(medicine, results)

Position(s, x) == CHOOSE i \in 1..Len(s) : s[i] = x

\* C8 as amended: every order of collection gives the same sequence of
\* prices and the same bestPrice, savings, savingsPercentage and count;
\* candidates of equal price keep the order in which they were collected,
\* so the results are the same sequence when no two prices are equal
C8_OrderIndependentPrices ==
  pc = "sort" =>
    \A p \in Perms(results) :
      LET a == aggregate(medicine, p)
          b == aggregate(medicine, results)
      IN /\ a.status = b.status
         /\ a.status = 200 =>
              /\ Prices(a.results) = Prices(b.results)
              /\ a.bestPrice = b.bestPrice
              /\ a.savings = b.savings
              /\ a.savingsPercentage = b.savingsPercentage
              /\ a.count = b.count
              /\ \A i, j \in 1..Len(a.results) :
                   (i < j /\ a.results[i].price = a.results[j].price) =>
                      Position(p, a.results[i]) < Position(p, a.results[j])
              /\ Cardinality(Range(Prices(p))) = Len(p) => a.results = b.results

C8_Witness ==
  /\ pc = "sort"
  /\ Len(results) >= 3
  /\ \E i, j \in 1..Len(results) : i # j /\ results[i].price = results[j].price

\* C9: every candidate in a 200 response has a price above 0, whatever the
\* scrapers gave, and the percentage never divides by 0
C9_PositivePrices ==
  /\ \A i \in 1..Len(results) : results[i].price > 0
  /\ response.status = 200 => \A i \in 1..Len(response.results) : response.results[i].price > 0
  /\ response.status = 500 => response.error # "ZeroDivisionError"

C9_Witness ==
  /\ response.status = 200
  /\ response.count >= 2
  /\ \E i \in 1..Len(returned) : returned[i].kind = "dict" /\ returned[i].val.price = 0

\* C10: for a valid query every scraper is entered once, in the order of
\* the list, each only after the one before has ended and a pacing sleep
\* has followed it, whatever its outcome; a 400 enters no scraper
C10_Sequential ==
  /\ Len(calls) <= Len(scrapers)
  /\ \A i \in 1..Len(calls) : calls[i] = scrapers[i]
  /\ pc = "call" => Len(returned) = Len(calls) /\ sleeps = Len(calls)
  /\ pc \in {"nav", "extract", "returned"} =>
       Len(calls) = Len(returned) + 1 /\ sleeps = Len(returned)
  /\ pc = "sleep" => Len(calls) = Len(returned) /\ sleeps + 1 = Len(returned)
  /\ response.status \in {200, 404} =>
       calls = scrapers /\ sleeps = Len(scrapers) /\ Len(returned) = Len(scrapers)
  /\ response.status = 400 => calls = <<>> /\ sleeps = 0

C10_Witness ==
  /\ pc = "done"
  /\ response.status = 200
  /\ sleeps = 4
  /\ returned[1] = None
  /\ returned[2] = Raised
  /\ returned[3].kind = "dict"

====
